---- MODULE Spec2Model ----
(***************************************************************************)
(* Model of buildbot_slack/reporter.py: SlackStatusPush, the reporter that *)
(* turns a buildbot build event into a Slack webhook payload and POSTs it  *)
(* once per sourcestamp of the build.                                      *)
(*                                                                         *)
(* Python values are modelled as follows.  A str is a TLA+ string, None is *)
(* the sentinel None below (never a value of the input domains), a dict is *)
(* a function whose DOMAIN is its key set, a list is a sequence, and an    *)
(* optional int (build["results"]) is a sequence of length 0 (None) or 1.  *)
(* An inlineCallbacks generator is a frame, a record of its locals plus    *)
(* pc, the yield it is suspended at; one action resumes a frame and runs   *)
(* it to its next suspension point.                                        *)
(***************************************************************************)
EXTENDS Integers, Sequences, FiniteSets, TLC

VARIABLES
    self,   \* the SlackStatusPush instance attributes set by reconfigService
    inv     \* inv[i]: the frame of event invocation i (sendMessage and callees)

vars == <<self, inv>>

(***************************************************************************)
(* Bounds of the model.                                                    *)
(***************************************************************************)
MaxStamps == 2          \* longest sourcestamp list of a build
NumInvocations == 2     \* concurrent event invocations (SpecConcurrent)

Invocations == 1..NumInvocations

(***************************************************************************)
(* Python helpers.                                                         *)
(***************************************************************************)
None == "<None>"

\* bool(v) for v a str or None
Truthy(v) == v # None /\ v # ""

\* "{}".format(v) for v a str or None
Str(v) == IF v = None THEN "None" ELSE v

\* the empty dict
EmptyDict == <<>>

\* d.get(k, default)
Get(d, k, default) == IF k \in DOMAIN d THEN d[k] ELSE default

\* d[k] = v
SetItem(d, k, v) == (k :> v) @@ d

\* d.update(e)
Update(d, e) == e @@ d

\* s.rstrip(c) for a single character c
RECURSIVE RStrip(_, _)
RStrip(s, c) ==
    IF Len(s) > 0 /\ SubSeq(s, Len(s), Len(s)) = c
    THEN RStrip(SubSeq(s, 1, Len(s) - 1), c)
    ELSE s

\* sep.join(xs)
RECURSIVE Join(_, _)
Join(sep, xs) ==
    IF Len(xs) = 0 THEN ""
    ELSE IF Len(xs) = 1 THEN xs[1]
    ELSE xs[1] \o sep \o Join(sep, Tail(xs))

\* s.startswith(p), s.endswith(p), p in s
StartsWith(s, p) == Len(p) <= Len(s) /\ SubSeq(s, 1, Len(p)) = p
EndsWith(s, p) == Len(p) <= Len(s) /\ SubSeq(s, Len(s) - Len(p) + 1, Len(s)) = p
Contains(s, p) == \E k \in 1..(Len(s) - Len(p) + 1) : SubSeq(s, k, k + Len(p) - 1) = p

(***************************************************************************)
(* The build dict of a report once getDetailsForBuild has filled it in: the *)
(* keys the reporter reads.  Records are written with their fields in       *)
(* sorted order.                                                            *)
(***************************************************************************)
Stamps ==
    [branch : {None, "main"}, project : {"", "proj"},
     repository : {"", "org/repo"}, revision : {None, "abc123"}]

FullStamp == [branch |-> "main", project |-> "proj",
              repository |-> "org/repo", revision |-> "abc123"]
BareStamp == [branch |-> None, project |-> "", repository |-> "", revision |-> None]

ListsOver(S, n) == UNION {[1..k -> S] : k \in 0..n}

\* the buildset of a build of the host, and of a build triggered by build #7
HostBuildSet(stamplist) ==
    [parent_buildid |-> 0, parent_relationship |-> None, sourcestamps |-> stamplist]
TriggeredBuildSet(stamplist) ==
    [parent_buildid |-> 7, parent_relationship |-> "Triggered from",
     sourcestamps |-> stamplist]

BuildSetsOver(stamplists) ==
    [parent_buildid : {0}, parent_relationship : {None}, sourcestamps : stamplists]
    \cup
    [parent_buildid : {7}, parent_relationship : {"Triggered from"},
     sourcestamps : stamplists]

BuildUrl(n) == "http://ci/#/builders/3/builds/" \o ToString(n)

\* the builds invocation i may be handed; different invocations, different builds
BuildsOver(i, completes, resultvalues, buildsets) ==
    [builder : [name : {"unit-tests"}], buildid : {10 + i}, buildset : buildsets,
     complete : completes, results : resultvalues, url : {BuildUrl(10 + i)}]

(***************************************************************************)
(* buildbot.process.results                                                *)
(***************************************************************************)
Results == <<"success", "warnings", "failure", "skipped", "exception", "retry", "cancelled">>

\* statusToString(status): status is <<>> (None) or <<n>>
statusToString(status) ==
    IF status = <<>> THEN "not finished"
    ELSE IF status[1] < 0 \/ status[1] >= Len(Results) THEN "Invalid status"
    ELSE Results[status[1] + 1]

(***************************************************************************)
(* Module constants of reporter.py                                         *)
(***************************************************************************)
STATUS_EMOJIS ==
    [cancelled |-> ":slam:", exception |-> ":skull:", failure |-> ":skull:",
     retry |-> ":facepalm:", skipped |-> ":slam:", success |-> ":sunglassses:",
     warnings |-> ":meow_wow:"]

STATUS_COLORS ==
    [cancelled |-> "#fc8c03", exception |-> "#fc0303", failure |-> "#fc0303",
     retry |-> "#fc8c03", skipped |-> "#fc8c03", success |-> "#36a64f",
     warnings |-> "#fc8c03"]

\* STATUS_COLORS.get(statusToString(build["results"]), "")
AttachmentColor(results) == Get(STATUS_COLORS, statusToString(results), "")

\* IconEmoji with the fallback of the colour table
IconEmoji_emptyDefault(results) == Get(STATUS_EMOJIS, statusToString(results), "")

\* STATUS_EMOJIS.get(statusToString(build["results"]), ":facepalm:")
IconEmoji(results) == Get(STATUS_EMOJIS, statusToString(results), ":facepalm:")

(***************************************************************************)
(* reconfigService: the instance attributes, fixed once configured.        *)
(***************************************************************************)
reconfigService(endpoint, channel, host_url, username, attachments) ==
    [attachments |-> attachments,
     baseUrl     |-> IF Truthy(host_url) THEN RStrip(host_url, "/") ELSE host_url,
     channel     |-> channel,
     endpoint    |-> endpoint,
     username    |-> username]

\* getMessage with the two keys of event_messages exchanged
getMessage_swapped(build) ==
    LET event_messages ==
            (TRUE :> ("Buildbot started build " \o build.builder.name))
         @@ (FALSE :> ("Buildbot finished build " \o build.builder.name
                        \o " with result: " \o statusToString(build.results)))
    IN Get(event_messages, build.complete, "")

(***************************************************************************)
(* getMessage                                                              *)
(***************************************************************************)
getMessage(build) ==
    LET event_messages ==
            (FALSE :> ("Buildbot started build " \o build.builder.name))
         @@ (TRUE :> ("Buildbot finished build " \o build.builder.name
                        \o " with result: " \o statusToString(build.results)))
    IN Get(event_messages, build.complete, "")

(***************************************************************************)
(* getAttachments, one loop iteration split at its yield.                  *)
(***************************************************************************)
\* SubBuild reading a key that is never set
SubBuild_never(build) == FALSE

SubBuild(build) == build.buildset.parent_buildid # 0

\* title of the attachment for one sourcestamp
AttachmentTitle(build, sourcestamp) ==
    LET t0 == "Build #" \o ToString(build.buildid)
        t1 == IF Truthy(sourcestamp.project)
              THEN t0 \o " for " \o sourcestamp.project \o " " \o Str(sourcestamp.revision)
              ELSE t0
    IN IF SubBuild(build)
       THEN t1 \o " " \o Str(build.buildset.parent_relationship) \o ": #"
               \o ToString(build.buildset.parent_buildid)
       ELSE t1

Field(title, value) == [short |-> TRUE, title |-> title, value |-> value]

\* fields appended before the yield on getResponsibleUsersForBuild
FieldsBeforeLookup(sourcestamp) ==
    LET f0 == <<>>
        f1 == IF Truthy(sourcestamp.branch)
              THEN Append(f0, Field("Branch", sourcestamp.branch)) ELSE f0
    IN IF Truthy(sourcestamp.repository)
       THEN Append(f1, Field("Repository", sourcestamp.repository)) ELSE f1

\* fields once the lookup has returned responsible_users
FieldsAfterLookup(fields, responsible_users) ==
    IF Len(responsible_users) > 0
    THEN Append(fields, Field("Commiters", Join(", ", responsible_users)))
    ELSE fields

\* the dict appended to attachments
Attachment(build, sourcestamp, fields) ==
    LET title == AttachmentTitle(build, sourcestamp)
    IN [color      |-> AttachmentColor(build.results),
        fallback   |-> title \o ": <" \o build.url \o ">",
        fields     |-> fields,
        mrkdwn_in  |-> <<"text", "title", "fallback">>,
        text       |-> "Status: *" \o statusToString(build.results) \o "*",
        title      |-> title,
        title_link |-> build.url]

(***************************************************************************)
(* getBuildDetailsAndSendMessage, from "postData = {}" to its return.      *)
(***************************************************************************)
getExtraParams(build) == EmptyDict

\* PostDataFrom without the else branch of line 206
PostDataFrom_noLink(s, build, text, attachments) ==
    LET d1 == IF s.attachments /\ Len(attachments) > 0
              THEN SetItem(EmptyDict, "attachments", attachments) ELSE EmptyDict
        d2 == SetItem(d1, "text", text)
        d3 == IF Truthy(s.channel) THEN SetItem(d2, "channel", s.channel) ELSE d2
        d4 == SetItem(d3, "icon_emoji", IconEmoji(build.results))
    IN Update(d4, getExtraParams(build))

\* attachments is the list getAttachments returned; it is not looked at when
\* self.attachments is false.
PostDataFrom(s, build, text, attachments) ==
    LET d0 == EmptyDict
        d1 == IF s.attachments /\ Len(attachments) > 0
              THEN SetItem(d0, "attachments", attachments) ELSE d0
        text1 == IF s.attachments THEN text ELSE text \o " here: " \o build.url
        d2 == SetItem(d1, "text", text1)
        d3 == IF Truthy(s.channel) THEN SetItem(d2, "channel", s.channel) ELSE d2
        d4 == SetItem(d3, "icon_emoji", IconEmoji(build.results))
    IN Update(d4, getExtraParams(build))

(***************************************************************************)
(* Frames.  pc is the yield the invocation is suspended at:                *)
(*   "idle"     no event delivered yet                                     *)
(*   "details"  yield utils.getDetailsForBuild(...)            (line 198)  *)
(*   "users"    yield utils.getResponsibleUsersForBuild(...)   (line 170)  *)
(*   "post"     yield self._http.post(...)                (lines 257, 259) *)
(*   "content"  yield response.content()                       (line 261)  *)
(*   "done"     sendMessage returned                                       *)
(*   "failed"   an exception left sendMessage                              *)
(* posts is what the HTTP client was asked to send, replies what it        *)
(* answered, log the logger calls of the invocation.                       *)
(***************************************************************************)
IdleFrame == [pc |-> "idle"]

LogInfo(msg) == [level |-> "info", msg |-> msg]
LogError(msg) == [level |-> "error", msg |-> msg]

\* the request of lines 255-259; the client's base URL is baseUrl or endpoint
PostRequest(s, postData) ==
    IF Truthy(s.baseUrl)
    THEN [base |-> s.baseUrl, ep |-> s.endpoint, json |-> postData]
    ELSE [base |-> s.endpoint, ep |-> "", json |-> postData]

\* PostedJson with postData kept in an attribute of the instance, which every
\* invocation that assembled a payload has written
PostedJson_shared(f) ==
    LET writers == {j \in Invocations : inv[j].pc \in {"post", "content", "done"}}
    IN IF writers = {} THEN f.postData ELSE inv[CHOOSE j \in writers : TRUE].postData

\* the json argument of self._http.post for invocation frame f
PostedJson(f) == f.postData

\* SendLoop issuing the POSTs of all remaining sourcestamps at once
SendLoop_burst(s, f, k) ==
    LET n == Len(f.build.buildset.sourcestamps)
    IN IF k > n
       THEN [f EXCEPT !.pc = "done", !.idx = k]
       ELSE [f EXCEPT !.pc = "post", !.idx = n,
                      !.posts = @ \o [j \in 1..(n - k + 1) |-> PostRequest(s, f.postData)]]

\* sendMessage's for loop arriving at iteration k (1-based)
SendLoop(s, f, k) ==
    IF k > Len(f.build.buildset.sourcestamps)
    THEN [f EXCEPT !.pc = "done", !.idx = k]
    ELSE LET sha == f.build.buildset.sourcestamps[k].revision
             log1 == IF sha = None
                     THEN Append(f.log, LogInfo("no special revision for this"))
                     ELSE f.log
             log2 == Append(log1, LogInfo("posting to " \o s.endpoint))
         IN [f EXCEPT !.pc = "post", !.idx = k, !.log = log2,
                      !.posts = Append(@, PostRequest(s, PostedJson(f)))]

\* sendMessage resumed with the postData getBuildDetailsAndSendMessage returned
PostDataReturned(s, f, postData) ==
    IF DOMAIN postData = {}
    THEN [f EXCEPT !.pc = "done", !.postData = postData]
    ELSE SendLoop(s, [f EXCEPT !.postData = postData], 1)

\* getAttachments' for loop arriving at iteration k; when the loop ends the
\* caller assembles postData and hands it to sendMessage
RECURSIVE AttachmentsLoop(_, _, _)
AttachmentsLoop(s, f, k) ==
    LET build == f.build
        sourcestamps == build.buildset.sourcestamps
    IN IF k > Len(sourcestamps)
       THEN PostDataReturned(s, f, PostDataFrom(s, build, f.text, f.attachments))
       ELSE IF SubBuild(build)
       THEN AttachmentsLoop(s,
                [f EXCEPT !.attachments = Append(@, Attachment(build, sourcestamps[k], <<>>))],
                k + 1)
       ELSE [f EXCEPT !.pc = "users", !.idx = k,
                      !.fields = FieldsBeforeLookup(sourcestamps[k])]

\* sendMessage(reports) up to its first yield
sendMessage(build) ==
    [attachments |-> <<>>, build |-> build, fields |-> <<>>, idx |-> 0,
     log |-> <<>>, lookups |-> <<>>, pc |-> "details", postData |-> EmptyDict,
     posts |-> <<>>, replies |-> <<>>, response |-> 0, text |-> ""]

\* getDetailsForBuild returned
DetailsOk(s, f) ==
    LET f1 == [f EXCEPT !.text = getMessage(f.build)]
    IN IF s.attachments
       THEN AttachmentsLoop(s, f1, 1)
       ELSE PostDataReturned(s, f1, PostDataFrom(s, f1.build, f1.text, <<>>))

\* getResponsibleUsersForBuild returned responsible_users
UsersOk(s, f, responsible_users) ==
    LET build == f.build
        fields == FieldsAfterLookup(f.fields, responsible_users)
        f1 == [f EXCEPT !.fields = fields,
                        !.lookups = Append(@, responsible_users),
                        !.attachments = Append(@,
                            Attachment(build, build.buildset.sourcestamps[f.idx], fields))]
    IN AttachmentsLoop(s, f1, f.idx + 1)

\* an exception raised outside the try block leaves sendMessage
Raised(f) == [f EXCEPT !.pc = "failed"]

\* IsFailureCode accepting every 2xx status
IsFailureCode_non2xx(code) == code < 200 \/ code > 299

\* the test of line 260
IsFailureCode(code) == code # 200

\* What the HTTP client answered to one POST: code is the response's status,
\* or 0 when post() raised; read tells whether response.content() was called
\* ("no"), returned ("yes") or raised ("raised").
Reply(code, read, content, error) ==
    [code |-> code, content |-> content, error |-> error, read |-> read]

\* self._http.post returned a response
PostOk(s, f, code) ==
    IF IsFailureCode(code)
    THEN [f EXCEPT !.pc = "content", !.response = code]
    ELSE SendLoop(s, [f EXCEPT !.response = code,
                               !.replies = Append(@, Reply(code, "no", "", ""))],
                  f.idx + 1)

UploadError(code, content) ==
    LogError(ToString(code) \o ": unable to upload status: " \o content)

\* response.content() returned
ContentOk(s, f, content) ==
    SendLoop(s, [f EXCEPT !.log = Append(@, UploadError(f.response, content)),
                          !.replies = Append(@, Reply(f.response, "yes", content, ""))],
             f.idx + 1)

SendError(sourcestamp, error) ==
    LogError("Failed to send status for " \o Str(sourcestamp.repository) \o " at "
                \o Str(sourcestamp.revision) \o ": " \o error)

\* Caught with the exception raised again after it is logged
Caught_reraise(s, f, error) ==
    [f EXCEPT !.pc = "failed",
              !.log = Append(@, SendError(f.build.buildset.sourcestamps[f.idx], error))]

\* the except clause of lines 267-273, entered from the yield of pc
Caught(s, f, error) ==
    LET sourcestamp == f.build.buildset.sourcestamps[f.idx]
        reply == IF f.pc = "post" THEN Reply(0, "no", "", error)
                 ELSE Reply(f.response, "raised", "", error)
    IN SendLoop(s, [f EXCEPT !.log = Append(@, SendError(sourcestamp, error)),
                             !.replies = Append(@, reply)],
                f.idx + 1)

(***************************************************************************)
(* Inputs.                                                                 *)
(***************************************************************************)
Endpoints == {"https://hooks.slack.com/services/T0/B0/X0"}
Channels == {None, "#builds"}
HostUrls == {None, "https://hooks.slack.com/"}
Usernames == {None, "buildbot"}

ConfigsOver(channels, host_urls, usernames, toggles) ==
    {reconfigService(e, c, h, u, a) :
        e \in Endpoints, c \in channels, h \in host_urls, u \in usernames, a \in toggles}

\* build["results"]: None, the seven result codes, and an int outside them
ResultValues == {<<>>} \cup {<<r>> : r \in 0..Len(Results)}

\* what getResponsibleUsersForBuild may return
UserLists == {<<>>, <<"alice", "bob">>}

\* what the endpoint may answer
Codes == {200, 204, 500}
Contents == {"invalid_payload"}
Errors == {"ConnectionRefusedError"}

(***************************************************************************)
(* Actions: the host's callbacks and the resumption of each yield.         *)
(***************************************************************************)
Resume(i, f) == inv' = [inv EXCEPT ![i] = f] /\ UNCHANGED self

buildStarted(i, build) ==
    /\ inv[i].pc = "idle"
    /\ ~build.complete
    /\ Resume(i, sendMessage(build))

buildFinished(i, build) ==
    /\ inv[i].pc = "idle"
    /\ build.complete
    /\ Resume(i, sendMessage(build))

DetailsReturn(i) ==
    /\ inv[i].pc = "details"
    /\ Resume(i, DetailsOk(self, inv[i]))

\* DetailsRaise with the failure swallowed and the invocation carrying on
DetailsRaise_swallowed(i) ==
    /\ inv[i].pc = "details"
    /\ Resume(i, DetailsOk(self, inv[i]))

DetailsRaise(i) ==
    /\ inv[i].pc = "details"
    /\ Resume(i, Raised(inv[i]))

UsersReturn(i, users) ==
    /\ inv[i].pc = "users"
    /\ Resume(i, UsersOk(self, inv[i], users))

UsersRaise(i) ==
    /\ inv[i].pc = "users"
    /\ Resume(i, Raised(inv[i]))

PostReturn(i, code) ==
    /\ inv[i].pc = "post"
    /\ Resume(i, PostOk(self, inv[i], code))

PostRaise(i, error) ==
    /\ inv[i].pc = "post"
    /\ Resume(i, Caught(self, inv[i], error))

ContentReturn(i, content) ==
    /\ inv[i].pc = "content"
    /\ Resume(i, ContentOk(self, inv[i], content))

ContentRaise(i, error) ==
    /\ inv[i].pc = "content"
    /\ Resume(i, Caught(self, inv[i], error))

(***************************************************************************)
(* Spec: the delivery of one event.  Builds with up to MaxStamps           *)
(* sourcestamps, started or failed, and every answer of the endpoint.      *)
(***************************************************************************)
DispatchConfigs == ConfigsOver(Channels, HostUrls, {None}, BOOLEAN)

DispatchBuilds(i) ==
    BuildsOver(i, {FALSE}, {<<>>},
               BuildSetsOver(ListsOver({FullStamp, BareStamp}, MaxStamps)))
    \cup
    BuildsOver(i, {TRUE}, {<<2>>},
               BuildSetsOver(ListsOver({FullStamp, BareStamp}, MaxStamps)))

Init ==
    /\ self \in DispatchConfigs
    /\ inv = [i \in Invocations |-> IdleFrame]

Next ==
    \/ \E build \in DispatchBuilds(1) : buildStarted(1, build)
    \/ \E build \in DispatchBuilds(1) : buildFinished(1, build)
    \/ DetailsReturn(1)
    \/ DetailsRaise(1)
    \/ \E users \in UserLists : UsersReturn(1, users)
    \/ UsersRaise(1)
    \/ \E code \in Codes : PostReturn(1, code)
    \/ \E error \in Errors : PostRaise(1, error)
    \/ \E content \in Contents : ContentReturn(1, content)
    \/ \E error \in Errors : ContentRaise(1, error)

Spec == Init /\ [][Next]_vars

(***************************************************************************)
(* SpecRender: the rendering of one event.  Every configuration, every     *)
(* result value and every sourcestamp, for builds of at most one           *)
(* sourcestamp.                                                            *)
(***************************************************************************)
RenderConfigs == ConfigsOver(Channels, HostUrls, Usernames, BOOLEAN)

RenderBuilds(i) ==
    BuildsOver(i, BOOLEAN, ResultValues, BuildSetsOver(ListsOver(Stamps, 1)))

RenderCodes == {200, 500}

InitRender ==
    /\ self \in RenderConfigs
    /\ inv = [i \in Invocations |-> IdleFrame]

NextRender ==
    \/ \E build \in RenderBuilds(1) : buildStarted(1, build)
    \/ \E build \in RenderBuilds(1) : buildFinished(1, build)
    \/ DetailsReturn(1)
    \/ DetailsRaise(1)
    \/ \E users \in UserLists : UsersReturn(1, users)
    \/ UsersRaise(1)
    \/ \E code \in RenderCodes : PostReturn(1, code)
    \/ \E error \in Errors : PostRaise(1, error)
    \/ \E content \in Contents : ContentReturn(1, content)
    \/ \E error \in Errors : ContentRaise(1, error)

SpecRender == InitRender /\ [][NextRender]_vars

(***************************************************************************)
(* SpecConcurrent: NumInvocations events in flight at once, resumed in any *)
(* order at their yields.                                                  *)
(***************************************************************************)
ConcurrentConfigs == ConfigsOver({"#builds"}, {None}, {None}, BOOLEAN)

\* a started build triggered by build #7, and a finished build with two
\* sourcestamps, so with two lookups and two POSTs
ConcurrentBuilds(i) ==
    BuildsOver(i, {FALSE}, {<<>>}, {TriggeredBuildSet(<<FullStamp>>)})
    \cup
    BuildsOver(i, {TRUE}, {<<0>>}, {HostBuildSet(<<FullStamp, BareStamp>>)})

ConcurrentUserLists == {<<"alice", "bob">>}
ConcurrentCodes == {200, 500}

InitConcurrent ==
    /\ self \in ConcurrentConfigs
    /\ inv = [i \in Invocations |-> IdleFrame]

NextConcurrent ==
    \E i \in Invocations :
        \/ \E build \in ConcurrentBuilds(i) : buildStarted(i, build)
        \/ \E build \in ConcurrentBuilds(i) : buildFinished(i, build)
        \/ DetailsReturn(i)
        \/ DetailsRaise(i)
        \/ \E users \in ConcurrentUserLists : UsersReturn(i, users)
        \/ UsersRaise(i)
        \/ \E code \in ConcurrentCodes : PostReturn(i, code)
        \/ \E error \in Errors : PostRaise(i, error)
        \/ \E content \in Contents : ContentReturn(i, content)
        \/ \E error \in Errors : ContentRaise(i, error)

SpecConcurrent == InitConcurrent /\ [][NextConcurrent]_vars

(***************************************************************************)
(* Properties.                                                             *)
(***************************************************************************)
Active(f) == f.pc # "idle"

\* the payload has been assembled and handed to sendMessage's loop
Assembled(f) == f.pc \in {"post", "content", "done"}

NumStamps(f) == Len(f.build.buildset.sourcestamps)

IsErrorEntry(e) == e.level = "error"
IsInfoEntry(e) == e.level = "info"

C1_Counts ==
    \A i \in Invocations :
        LET f == inv[i]
        IN /\ f.pc = "done" =>
                Len(f.posts) = NumStamps(f) /\ Len(f.replies) = NumStamps(f)
           /\ f.pc \in {"post", "content"} =>
                f.idx <= NumStamps(f) /\ Len(f.posts) = f.idx /\ Len(f.replies) = f.idx - 1

C1_NothingRaised ==
    \A i \in Invocations :
        inv[i].pc \in {"post", "content"} => inv'[i].pc \in {"post", "content", "done"}

\* C1: once the payload is assembled, sendMessage issues one POST per
\* sourcestamp and ends with exactly N POSTs answered, whatever the answers
\* were (a non-200 response, an exception of post() or of content(), an
\* absent revision); from a POST in flight the invocation only moves to the
\* next POST or to its end, never to a raised exception.
C1_OnePostPerSourcestamp == []C1_Counts /\ [][C1_NothingRaised]_vars

\* C1 witness: a build of two sourcestamps, the second without a revision,
\* whose first POST raised and whose second POST was answered 500.
C1_Witness ==
    /\ inv[1].pc = "done"
    /\ NumStamps(inv[1]) = 2
    /\ inv[1].build.buildset.sourcestamps[2].revision = None
    /\ inv[1].replies[1].code = 0
    /\ inv[1].replies[2].code = 500

\* the logger.error calls the answers of the endpoint call for, in order
RECURSIVE ErrorsFor(_, _, _)
ErrorsFor(replies, sourcestamps, k) ==
    IF k > Len(replies) THEN <<>>
    ELSE LET r == replies[k]
             here == IF r.code = 0 \/ r.read = "raised"
                     THEN <<SendError(sourcestamps[k], r.error)>>
                     ELSE IF r.code # 200
                     THEN <<UploadError(r.code, r.content)>>
                     ELSE <<>>
         IN here \o ErrorsFor(replies, sourcestamps, k + 1)

\* C2 (as amended): for every POST that returned a response, the body is
\* read exactly when the status is not 200; a body that was read is logged
\* as an error with the status and the body, a 200 logs nothing, and no
\* answer makes the invocation fail.
C2_FailureIffNot200 ==
    \A i \in Invocations :
        LET f == inv[i]
        IN Active(f) =>
            /\ \A k \in DOMAIN f.replies :
                   f.replies[k].code # 0 =>
                       (f.replies[k].read # "no" <=> f.replies[k].code # 200)
            /\ SelectSeq(f.log, IsErrorEntry)
                 = ErrorsFor(f.replies, f.build.buildset.sourcestamps, 1)
            /\ f.replies # <<>> => f.pc # "failed"

\* C2 witness: a 204 whose body was read and logged, then a 200.
C2_Witness ==
    /\ inv[1].pc = "done"
    /\ NumStamps(inv[1]) = 2
    /\ inv[1].replies[1].code = 204 /\ inv[1].replies[1].read = "yes"
    /\ inv[1].replies[2].code = 200 /\ inv[1].replies[2].read = "no"
    /\ Len(SelectSeq(inv[1].log, IsErrorEntry)) = 1

\* C2 as claimed: the body is read and a failure recorded exactly when the
\* status is outside 200..299.
C2_FailureIffNon2xx ==
    \A i \in Invocations :
        LET f == inv[i]
        IN Active(f) =>
            \A k \in DOMAIN f.replies :
                f.replies[k].code # 0 =>
                    (f.replies[k].read # "no"
                        <=> (f.replies[k].code < 200 \/ f.replies[k].code > 299))

C3_FailedIsEmpty ==
    \A i \in Invocations :
        inv[i].pc = "failed" =>
            inv[i].posts = <<>> /\ inv[i].replies = <<>> /\ inv[i].postData = EmptyDict

C3_FailureEnds ==
    \A i \in Invocations :
        /\ (DetailsRaise(i) \/ UsersRaise(i)) =>
                inv'[i].pc = "failed" /\ inv'[i].posts = <<>>
        /\ inv[i].pc = "failed" => inv'[i] = inv[i]

\* C3: when getDetailsForBuild or getResponsibleUsersForBuild raises, the
\* invocation ends failed, having issued no POST, and takes no further step.
C3_NoPostAfterEnrichmentFailure == []C3_FailedIsEmpty /\ [][C3_FailureEnds]_vars

\* C3 witness: the lookup for the second sourcestamp raised after the first
\* attachment had been built.
C3_Witness ==
    /\ inv[1].pc = "failed"
    /\ Len(inv[1].lookups) = 1
    /\ Len(inv[1].attachments) = 1
    /\ NumStamps(inv[1]) = 2

\* the logger.info calls of the first n iterations of sendMessage's loop
RECURSIVE InfosFor(_, _, _, _)
InfosFor(s, sourcestamps, n, k) ==
    IF k > n THEN <<>>
    ELSE (IF sourcestamps[k].revision = None
          THEN <<LogInfo("no special revision for this")>> ELSE <<>>)
         \o <<LogInfo("posting to " \o s.endpoint)>>
         \o InfosFor(s, sourcestamps, n, k + 1)

C10_OneInFlight ==
    \A i \in Invocations :
        LET f == inv[i]
        IN Active(f) =>
            /\ Len(f.posts) = Len(f.replies) + (IF f.pc \in {"post", "content"} THEN 1 ELSE 0)
            /\ f.pc \in {"post", "content"} => f.idx = Len(f.posts)
            /\ \A k \in DOMAIN f.posts : f.posts[k] = PostRequest(self, f.postData)
            /\ SelectSeq(f.log, IsInfoEntry)
                 = InfosFor(self, f.build.buildset.sourcestamps, Len(f.posts), 1)

C10_IssuedAfterOutcome ==
    \A i \in Invocations :
        (Active(inv[i]) /\ inv'[i].posts # inv[i].posts) =>
            /\ inv'[i].posts = Append(inv[i].posts, PostRequest(self, inv'[i].postData))
            /\ Len(inv'[i].replies) = Len(inv[i].posts)
            /\ inv'[i].idx = Len(inv'[i].posts)
            /\ inv'[i].postData = inv[i].postData \/ inv[i].posts = <<>>

\* C10: at most one POST of an invocation is in flight; the k-th POST is the
\* one of the k-th sourcestamp and is issued, alone, in the step that records
\* the outcome of POST k-1; every POST carries the invocation's one payload.
C10_SequentialOrdered == []C10_OneInFlight /\ [][C10_IssuedAfterOutcome]_vars

\* C10 witness: the second POST is in flight, the first was answered 500 and
\* its body read.
C10_Witness ==
    /\ inv[1].pc = "post"
    /\ inv[1].idx = 2
    /\ inv[1].replies = <<Reply(500, "yes", "invalid_payload", "")>>
    /\ Len(inv[1].posts) = 2

\* getAttachments run to its end with the lookups answered by lookups
RECURSIVE SoloAttachments(_, _, _)
SoloAttachments(build, lookups, k) ==
    IF k > Len(build.buildset.sourcestamps) THEN <<>>
    ELSE LET sourcestamp == build.buildset.sourcestamps[k]
             fields == IF build.buildset.parent_buildid # 0 THEN <<>>
                       ELSE FieldsAfterLookup(FieldsBeforeLookup(sourcestamp), lookups[k])
         IN <<Attachment(build, sourcestamp, fields)>>
            \o SoloAttachments(build, lookups, k + 1)

\* the payload of an invocation that runs alone with the same build, the same
\* configuration and the same answers to its lookups
SoloPostData(s, build, lookups) ==
    PostDataFrom(s, build, getMessage(build),
                 IF s.attachments THEN SoloAttachments(build, lookups, 1) ELSE <<>>)

\* C4: under every interleaving of the invocations at their yields, each
\* invocation's payload, and every POST it has issued, is the one it would
\* produce alone from its own build, the configuration and the answers to
\* its own lookups; it has issued one POST per sourcestamp reached.
C4_Independent ==
    \A i \in Invocations :
        LET f == inv[i]
        IN Assembled(f) =>
            LET solo == SoloPostData(self, f.build, f.lookups)
            IN /\ f.postData = solo
               /\ f.posts = [k \in 1..Len(f.posts) |-> PostRequest(self, solo)]
               /\ Len(f.posts) = (IF f.pc = "done" THEN NumStamps(f) ELSE f.idx)

\* C4 witness: invocation 1 has its second POST in flight while invocation 2
\* is suspended between its two lookups.
C4_Witness ==
    /\ inv[1].pc = "post" /\ inv[1].idx = 2
    /\ inv[2].pc = "users" /\ Len(inv[2].lookups) = 1
    /\ inv[1].build.buildid # inv[2].build.buildid

\* C5 as claimed: the payload has the key channel exactly when a non-empty
\* channel is configured, and the key username exactly when a non-empty
\* username is configured, each with the configured value.
C5_Overrides ==
    \A i \in Invocations :
        LET f == inv[i]
        IN Assembled(f) =>
            /\ "channel" \in DOMAIN f.postData <=> Truthy(self.channel)
            /\ "channel" \in DOMAIN f.postData => f.postData["channel"] = self.channel
            /\ "username" \in DOMAIN f.postData <=> Truthy(self.username)
            /\ "username" \in DOMAIN f.postData => f.postData["username"] = self.username

TableCodes ==
    {"success", "warnings", "failure", "skipped", "exception", "retry", "cancelled"}

\* the colours of the attachments of a payload
PayloadColors(postData) ==
    IF "attachments" \in DOMAIN postData
    THEN {postData["attachments"][k].color : k \in DOMAIN postData["attachments"]}
    ELSE {}

\* C6: in every assembled payload, when the build's result string is one of
\* the seven of the table the icon and every attachment colour are non-empty
\* (the colour a "#" and six hex digits); for any other result string the
\* icon is the fallback ":facepalm:" and every colour the fallback "".
C6_StatusMappingTotal ==
    \A i \in Invocations :
        LET f == inv[i]
        IN Assembled(f) =>
            LET status == statusToString(f.build.results)
                icon == f.postData["icon_emoji"]
                colors == PayloadColors(f.postData)
            IN IF status \in TableCodes
               THEN /\ icon # ""
                    /\ \A c \in colors : Len(c) = 7 /\ StartsWith(c, "#")
               ELSE /\ icon = ":facepalm:"
                    /\ \A c \in colors : c = ""

\* C6 witness: the payload of a started build, whose result is None, with an
\* attachment.
C6_Witness ==
    /\ inv[1].pc = "done"
    /\ inv[1].build.results = <<>>
    /\ PayloadColors(inv[1].postData) = {""}
    /\ inv[1].postData["icon_emoji"] = ":facepalm:"

\* C7: with attachments disabled, getAttachments is never entered (no
\* attachment is built, no lookup made), and the assembled payload has no
\* key attachments and the text getMessage(build) + " here: " + url.
C7_AttachmentsDisabled ==
    \A i \in Invocations :
        LET f == inv[i]
        IN (Active(f) /\ ~self.attachments) =>
            /\ f.pc # "users" /\ f.attachments = <<>> /\ f.lookups = <<>>
            /\ Assembled(f) =>
                /\ "attachments" \notin DOMAIN f.postData
                /\ EndsWith(f.postData["text"], f.build.url)
                /\ f.postData["text"] = f.text \o " here: " \o f.build.url

\* C7 witness: attachments disabled, a build with a sourcestamp, delivered.
C7_Witness ==
    /\ ~self.attachments
    /\ inv[1].pc = "done"
    /\ NumStamps(inv[1]) = 1
    /\ inv[1].build.buildset.sourcestamps[1] = FullStamp
    /\ inv[1].build.buildset.parent_buildid = 0

FieldTitles(attachment) == {attachment.fields[j].title : j \in DOMAIN attachment.fields}

\* C8: for a build with a parent build id, no attachment built by
\* getAttachments, and none in the payload, has a field titled Branch,
\* Repository or Commiters.
C8_SubBuildHasNoFields ==
    \A i \in Invocations :
        LET f == inv[i]
        IN (Active(f) /\ f.build.buildset.parent_buildid # 0) =>
            /\ \A k \in DOMAIN f.attachments :
                   FieldTitles(f.attachments[k]) \cap {"Branch", "Repository", "Commiters"} = {}
            /\ (Assembled(f) /\ "attachments" \in DOMAIN f.postData) =>
                   \A k \in DOMAIN f.postData["attachments"] :
                       f.postData["attachments"][k].fields = <<>>

\* C8 witness: a delivered sub-build whose sourcestamp has a branch and a
\* repository, with its attachment in the payload.
C8_Witness ==
    /\ inv[1].pc = "done"
    /\ inv[1].build.buildset.parent_buildid = 7
    /\ inv[1].build.buildset.sourcestamps = <<FullStamp>>
    /\ "attachments" \in DOMAIN inv[1].postData
    /\ Len(inv[1].postData["attachments"]) = 1

\* every string statusToString can return
ResultStrings == TableCodes \cup {"not finished", "Invalid status"}

\* C9: for an incomplete build the text is the started message naming the
\* builder and contains no result string; for a complete build it is the
\* finished message, naming the builder and ending with the result string of
\* the build's results.
C9_Message ==
    \A i \in Invocations :
        LET f == inv[i]
        IN (Assembled(f) \/ f.pc = "users") =>
            LET name == f.build.builder.name
            IN IF ~f.build.complete
               THEN /\ f.text = "Buildbot started build " \o name
                    /\ \A r \in ResultStrings : ~Contains(f.text, r)
               ELSE /\ StartsWith(f.text, "Buildbot finished build " \o name)
                    /\ Contains(f.text, name)
                    /\ EndsWith(f.text, "with result: " \o statusToString(f.build.results))

\* C9 witness: an incomplete build that carries the result code of success.
C9_Witness ==
    /\ inv[1].pc = "done"
    /\ ~inv[1].build.complete
    /\ inv[1].build.results = <<0>>
    /\ inv[1].postData["text"] = "Buildbot started build unit-tests"

====
